---- MODULE Spec2Model ----
(***************************************************************************)
(* Game-tree search of src/search.py: minimax, alphabeta and stochastic.   *)
(*                                                                         *)
(* The game itself (chess.lib) is external to the search.  It is modelled  *)
(* as a finite tree: a board is the sequence of the moves played from the  *)
(* start position, the move generator yields `width` moves in a fixed      *)
(* order (none at a dead position or at ply MaxPly), and the evaluator is  *)
(* a table drawn in Init.  flags are part of the board here: the search    *)
(* only threads them through generateMoves and makeMove.                   *)
(***************************************************************************)
EXTENDS Integers, Sequences, FiniteSets, TLC

\* ---- bounds of the model ------------------------------------------------
MaxBranch == 2      \* most moves the generator yields in one position
MaxPly == 3         \* height of the game tree: no moves at this ply
EvalMax == 2        \* the evaluator's values are 0..EvalMax
EvalPeriod == 3     \* size of the evaluator's table
DeadMod == 4        \* a position whose code is `dead` mod DeadMod has no moves
MaxBreadth == 2     \* most rollouts per first move
ScriptLen == 3      \* length of the chooser's script

\* math.inf: above every evaluation and every sum of evaluations
Infinity == 1000

\* Python's None
None == <<>>

VARIABLES
    width,      \* game: moves in a position that has any
    dead,       \* game: residue of the positions without moves (DeadMod: none)
    evalTab,    \* game: the evaluator's table
    phase,      \* "idle" | "minimax" | "both" | "stochastic"
    args,       \* the arguments of the call in progress
    mmRes,      \* what minimax returned
    abRes,      \* what alphabeta returned
    st          \* stochastic: its locals and its result

vars == <<width, dead, evalTab, phase, args, mmRes, abRes, st>>

\* ---- the game (external collaborators) ----------------------------------

RECURSIVE Code(_)
\* A number for a board: the root is 1, the k-th child of c is MaxBranch*c + k - 1.
Code(board) ==
    IF board = <<>> THEN 1
    ELSE MaxBranch * Code(SubSeq(board, 1, Len(board) - 1)) + board[Len(board)] - 1

evaluate(board) == evalTab[Code(board) % EvalPeriod]

nmoves(board) ==
    IF Len(board) >= MaxPly THEN 0
    ELSE IF Code(board) % DeadMod = dead THEN 0
    ELSE width

\* Each move is [fro, to, promote]; promote None is 0.
generateMoves(side, board) == [k \in 1..nmoves(board) |-> <<k, k + 1, 0>>]

makeMove(side, board, fro, to, promote) ==
    [side |-> ~side, board |-> Append(board, fro)]

\* A key for a move, injective on the moves of the game.
encode(move) == 100 * move[1] + 10 * move[2] + move[3]

\* ---- dict ----------------------------------------------------------------
EmptyDict == <<>>

\* d[k] = v
DictSet(d, k, v) == [x \in (DOMAIN d) \cup {k} |-> IF x = k THEN v ELSE d[x]]

\* d.update(c)
DictUpdate(d, c) ==
    [x \in (DOMAIN d) \cup (DOMAIN c) |-> IF x \in DOMAIN c THEN c[x] ELSE d[x]]

\* ---- minimax --------------------------------------------------------------

\* line 87: if recValue > value
MaxImproves(recValue, value) == recValue > value

\* line 102: if recValue < value
MinImproves(recValue, value) == recValue < value

\* line 64: the base case
IsBaseCase(depth) == depth = 0

\* Mutant of InsertBest: the move appended (moveList.append(best_move)).
InsertBest_Append(best_move, moveList) == moveList \o <<best_move>>

\* line 110: moveList.insert(0, best_move)
InsertBest(best_move, moveList) == <<best_move>> \o moveList

RECURSIVE minimax(_, _, _), minimaxLoop(_, _, _, _, _, _)

\* One iteration of `for move in possible_moves` (lines 82-92, 99-106), then the rest.
minimaxLoop(side, board, depth, moves, k, loc) ==
    IF k > Len(moves) THEN loc
    ELSE LET move == moves[k]
             new == makeMove(side, board, move[1], move[2], move[3])
             rec == minimax(new.side, new.board, depth - 1)
             better == IF side = FALSE THEN MaxImproves(rec.value, loc.value)
                                       ELSE MinImproves(rec.value, loc.value)
             upd == [value |-> IF better THEN rec.value ELSE loc.value,
                     best_move |-> IF better THEN move ELSE loc.best_move,
                     moveList |-> IF better THEN rec.moveList ELSE loc.moveList,
                     moveTree |-> DictSet(loc.moveTree, encode(move), rec.moveTree)]
         IN minimaxLoop(side, board, depth, moves, k + 1, upd)

minimax(side, board, depth) ==
    IF IsBaseCase(depth)
    THEN [value |-> evaluate(board), moveList |-> <<>>, moveTree |-> EmptyDict]
    ELSE LET possible_moves == generateMoves(side, board)
             loc0 == [value |-> IF side = FALSE THEN -Infinity ELSE Infinity,
                      best_move |-> None,
                      moveList |-> <<>>,
                      moveTree |-> EmptyDict]
             fin == minimaxLoop(side, board, depth, possible_moves, 1, loc0)
         IN [value |-> fin.value,
             moveList |-> InsertBest(fin.best_move, fin.moveList),
             moveTree |-> fin.moveTree]

\* ---- alphabeta ------------------------------------------------------------

\* Mutant of MaxCutoff for C1: the wrong bound (value >= alpha).
MaxCutoff_Alpha(value, alpha, beta) == value >= alpha

\* line 161: if value >= beta: break
MaxCutoff(value, alpha, beta) == value >= beta

\* Mutant of MinCutoff for C8: a strict comparison (value < alpha), which lets
\* the loop run on after a cutoff on equality.
MinCutoff_Strict(value, alpha, beta) == value < alpha

\* line 180: if value <= alpha: break
MinCutoff(value, alpha, beta) == value <= alpha

\* line 163-164: if value > alpha: alpha = value
RaiseAlpha(value, alpha) == IF value > alpha THEN value ELSE alpha

\* line 182-183: if value < beta: beta = value
LowerBeta(value, beta) == IF value < beta THEN value ELSE beta

RECURSIVE alphabeta(_, _, _, _, _), alphabetaLoop(_, _, _, _, _, _)

\* One iteration of `for move in possible_moves` (lines 149-164, 171-183), then
\* the rest.  `cuts` is a history field, not a local of the code: the cutoffs
\* (value >= beta in a maximizing node, value <= alpha in a minimizing node), here
\* or below, met with a move of the generator still to come, each as the board it
\* happened on and the index k of the move that triggered it.
alphabetaLoop(side, board, depth, moves, k, loc) ==
    IF k > Len(moves) THEN loc
    ELSE LET move == moves[k]
             new == makeMove(side, board, move[1], move[2], move[3])
             rec == alphabeta(new.side, new.board, depth - 1, loc.alpha, loc.beta)
             better == IF side = FALSE THEN MaxImproves(rec.value, loc.value)
                                       ELSE MinImproves(rec.value, loc.value)
             value == IF better THEN rec.value ELSE loc.value
             stop == IF side = FALSE THEN MaxCutoff(value, loc.alpha, loc.beta)
                                     ELSE MinCutoff(value, loc.alpha, loc.beta)
             cutoff == IF side = FALSE THEN value >= loc.beta ELSE value <= loc.alpha
             upd == [value |-> value,
                     best_move |-> IF better THEN move ELSE loc.best_move,
                     moveList |-> IF better THEN rec.moveList ELSE loc.moveList,
                     moveTree |-> DictSet(loc.moveTree, encode(move), rec.moveTree),
                     alpha |-> IF side = FALSE /\ ~stop
                               THEN RaiseAlpha(value, loc.alpha) ELSE loc.alpha,
                     beta |-> IF side = TRUE /\ ~stop
                              THEN LowerBeta(value, loc.beta) ELSE loc.beta,
                     cuts |-> loc.cuts \cup rec.cuts \cup
                             IF cutoff /\ k < Len(moves)
                             THEN {[board |-> board, k |-> k]} ELSE {}]
         IN IF stop THEN upd
            ELSE alphabetaLoop(side, board, depth, moves, k + 1, upd)

alphabeta(side, board, depth, alpha, beta) ==
    IF IsBaseCase(depth)
    THEN [value |-> evaluate(board), moveList |-> <<>>, moveTree |-> EmptyDict,
          cuts |-> {}]
    ELSE LET possible_moves == generateMoves(side, board)
             loc0 == [value |-> IF side = FALSE THEN -Infinity ELSE Infinity,
                      best_move |-> None,
                      moveList |-> <<>>,
                      moveTree |-> EmptyDict,
                      alpha |-> alpha,
                      beta |-> beta,
                      cuts |-> {}]
             fin == alphabetaLoop(side, board, depth, possible_moves, 1, loc0)
         IN [value |-> fin.value,
             moveList |-> InsertBest(fin.best_move, fin.moveList),
             moveTree |-> fin.moveTree,
             cuts |-> fin.cuts]

\* ---- the searches as a state machine --------------------------------------

NoResult == [value |-> 0, moveList |-> <<>>, moveTree |-> EmptyDict]
NoArgs == [side |-> FALSE, board |-> <<>>, depth |-> 0]
StIdle == [pc |-> "idle"]

Games ==
    /\ width \in 1..MaxBranch
    /\ dead \in 0..DeadMod
    /\ evalTab \in [0..(EvalPeriod - 1) -> 0..EvalMax]

Init ==
    /\ Games
    /\ phase = "idle"
    /\ args = NoArgs
    /\ mmRes = NoResult
    /\ abRes = NoResult @@ [cuts |-> {}]
    /\ st = StIdle

\* The depths of a call: negative, zero, and up to one past the tree's height.
Depths == (-1)..(MaxPly + 1)

\* The boards of a call: the start position and the positions one move from it.
Boards == {<<>>} \cup {<<k>> : k \in 1..nmoves(<<>>)}

MinimaxCall ==
    /\ phase = "idle"
    /\ \E side \in BOOLEAN, board \in Boards, depth \in Depths :
         /\ args' = [side |-> side, board |-> board, depth |-> depth]
         /\ mmRes' = minimax(side, board, depth)
    /\ phase' = "minimax"
    /\ UNCHANGED <<width, dead, evalTab, abRes, st>>

\* alphabeta on the arguments minimax was called on, with the default bounds.
AlphabetaCall ==
    /\ phase = "minimax"
    /\ abRes' = alphabeta(args.side, args.board, args.depth, -Infinity, Infinity)
    /\ phase' = "both"
    /\ UNCHANGED <<width, dead, evalTab, args, mmRes, st>>

Next == MinimaxCall \/ AlphabetaCall

Spec == Init /\ [][Next]_vars

\* ---- stochastic -----------------------------------------------------------

\* A mean, sum / count, kept exact: [num, den] with den > 0.
Rat(num, den) == [num |-> num, den |-> den]
RatLess(a, b) == a.num * b.den < b.num * a.den
RatEq(a, b) == a.num * b.den = b.num * a.den

RECURSIVE SumSeq(_)
SumSeq(s) == IF s = <<>> THEN 0 ELSE s[1] + SumSeq(Tail(s))

\* lines 266-269: avg = sum(vals_to_avg) / len(vals_to_avg), len > 0
Average(vals) == Rat(SumSeq(vals), Len(vals))

\* The chooser: a deterministic one that follows a script, the n-th call picking
\* the candidate at index script[n mod ScriptLen] mod len (counting from 0).
chooser(script, n, possible_moves) ==
    possible_moves[(script[(n % ScriptLen) + 1] % Len(possible_moves)) + 1]

RECURSIVE backtrackLoop(_, _, _)
\* lines 211-215: the loop of backtrackPath, from index i (from 1 here)
backtrackLoop(mTree, path, i) ==
    IF i > Len(path) THEN mTree
    ELSE IF i = 1
         THEN backtrackLoop(DictSet(mTree, encode(path[i]), EmptyDict), path, i + 1)
         ELSE backtrackLoop(
                  DictSet(mTree, encode(path[i]),
                          DictSet(EmptyDict, encode(path[i - 1]),
                                  mTree[encode(path[i - 1])])),
                  path, i + 1)

\* lines 210-216.  path[-1] of an empty path raises IndexError.
backtrackPath(mTree, path) ==
    IF Len(path) = 0 THEN [raised |-> TRUE, tree |-> EmptyDict]
    ELSE LET built == backtrackLoop(mTree, path, 1)
             last == encode(path[Len(path)])
         IN [raised |-> FALSE, tree |-> DictSet(EmptyDict, last, built[last])]

\* line 254: path.insert(0, move)
PathInsert(path, move) == <<move>> \o path

\* Mutant of RecordRollout: the sub-tree replaced by the rollout's chain
\* (moveTree[encode(*i_move)] = child_tree).
RecordRollout_Replace(moveTree, i_move, child_tree) ==
    DictSet(moveTree, encode(i_move), child_tree)

\* line 246: moveTree[encode(*i_move)].update(child_tree)
RecordRollout(moveTree, i_move, child_tree) ==
    DictSet(moveTree, encode(i_move),
            DictUpdate(moveTree[encode(i_move)], child_tree))

\* Mutant of StImproves: the maximizing side takes the greatest mean.
StImproves_BySide(side, val, min) ==
    IF side THEN RatLess(val, min) ELSE RatLess(min, val)

\* line 280: if val < min
StImproves(side, val, min) == RatLess(val, min)

RECURSIVE SelectLoop(_, _, _, _)
\* lines 279-285: the scan of initial_move_averages (index from 1 here; min_idx is
\* the index into moveList, from 0 in the code)
SelectLoop(side, averages, i, sel) ==
    IF i > Len(averages) THEN sel
    ELSE SelectLoop(side, averages, i + 1,
                    IF StImproves(side, averages[i], sel.min)
                    THEN [min |-> averages[i], min_idx |-> i - 1]
                    ELSE sel)

\* lines 274-287
Select(side, averages) ==
    SelectLoop(side, averages, 1, [min |-> Rat(Infinity, 1), min_idx |-> 0])

\* The games of the stochastic search: the evaluators are the affine tables, and
\* the only positions without moves are the start position (dead = 1) or none.
StGames ==
    /\ width \in 1..MaxBranch
    /\ dead \in {1, DeadMod}
    /\ \E a \in 0..EvalMax, b \in 0..EvalMax :
         evalTab = [r \in 0..(EvalPeriod - 1) |-> (a * r + b) % (EvalMax + 1)]

InitSt ==
    /\ StGames
    /\ phase = "idle"
    /\ args = NoArgs
    /\ mmRes = NoResult
    /\ abRes = NoResult @@ [cuts |-> {}]
    /\ st = StIdle

Scripts == [1..ScriptLen -> 0..(MaxBranch - 1)]

\* A rollout begins (lines 234-237).
\* played, rollouts and emptyChoice are history fields, not locals of the code:
\* the moves of the rollout in the order played, the rollouts of each first move
\* (moves after the first, leaf board, leaf value), and whether the chooser was
\* handed no candidate.
NewRollout(s, j) ==
    [s EXCEPT !.pc = "while", !.j = j, !.path = <<>>, !.curr_depth = 1,
              !.cur = s.initial_move, !.played = <<>>]

\* lines 220-226
StochasticCall ==
    /\ phase = "idle"
    /\ \E side \in BOOLEAN, depth \in 0..(MaxPly + 1), breadth \in 0..MaxBreadth,
          script \in Scripts :
         /\ args' = [side |-> side, board |-> <<>>, depth |-> depth,
                     breadth |-> breadth, script |-> script]
         /\ st' = [pc |-> "for_i", error |-> "none", n |-> 0,
                   initial_moves |-> generateMoves(side, <<>>), i |-> 0,
                   i_move |-> None, initial_move |-> [side |-> side, board |-> <<>>],
                   j |-> 0, path |-> <<>>, curr_depth |-> 1,
                   cur |-> [side |-> side, board |-> <<>>],
                   vals_to_avg |-> <<>>, value |-> Infinity,
                   moveList |-> <<>>, moveTree |-> EmptyDict,
                   initial_move_averages |-> <<>>,
                   played |-> <<>>, rollouts |-> <<>>, emptyChoice |-> FALSE,
                   result |-> NoResult]
    /\ phase' = "stochastic"
    /\ UNCHANGED <<width, dead, evalTab, mmRes, abRes>>

\* lines 263-270: after the rollouts of one first move
AfterRollouts(s) ==
    LET path == PathInsert(s.path, s.i_move)
        s1 == [s EXCEPT !.path = path, !.moveList = Append(s.moveList, path)]
    IN IF Len(s.vals_to_avg) = 0
       THEN [s1 EXCEPT !.pc = "raised", !.error = "ZeroDivisionError"]
       ELSE [s1 EXCEPT !.pc = "for_i",
                       !.initial_move_averages =
                           Append(s.initial_move_averages, Average(s.vals_to_avg))]

\* lines 227-237: the next first move.  With breadth < 1 no rollout assigns
\* path, and line 263 reads it unassigned; with depth < 1 no rollout enters its
\* while loop, and the mean of no values is taken.
StInitialMove ==
    /\ phase = "stochastic"
    /\ st.pc = "for_i"
    /\ st.i < Len(st.initial_moves)
    /\ LET i_move == st.initial_moves[st.i + 1]
           s1 == [st EXCEPT !.i = st.i + 1, !.i_move = i_move,
                            !.moveTree = DictSet(st.moveTree, encode(i_move), EmptyDict),
                            !.initial_move = makeMove(args.side, args.board,
                                                      i_move[1], i_move[2], i_move[3]),
                            !.vals_to_avg = <<>>,
                            !.rollouts = Append(st.rollouts, <<>>)]
       IN st' = IF args.breadth < 1
                THEN [s1 EXCEPT !.pc = "raised", !.error = "UnboundLocalError"]
                ELSE IF args.depth < 1
                     THEN AfterRollouts([s1 EXCEPT !.path = <<>>,
                                                   !.j = args.breadth - 1])
                     ELSE NewRollout(s1, 0)
    /\ UNCHANGED <<width, dead, evalTab, phase, args, mmRes, abRes>>

\* lines 249-258: one more ply of the rollout
StChoose ==
    /\ phase = "stochastic"
    /\ st.pc = "while"
    /\ st.curr_depth < args.depth
    /\ LET possible_moves == generateMoves(st.cur.side, st.cur.board)
       IN IF Len(possible_moves) = 0
          THEN st' = [st EXCEPT !.pc = "raised", !.error = "IndexError",
                                !.emptyChoice = TRUE]
          ELSE LET move == chooser(args.script, st.n, possible_moves)
               IN st' = [st EXCEPT !.n = st.n + 1,
                                   !.path = PathInsert(st.path, move),
                                   !.played = Append(st.played, move),
                                   !.curr_depth = st.curr_depth + 1,
                                   !.cur = makeMove(st.cur.side, st.cur.board,
                                                    move[1], move[2], move[3])]
    /\ UNCHANGED <<width, dead, evalTab, phase, args, mmRes, abRes>>

\* lines 241-247: the leaf of the rollout, then the next rollout or the mean
StLeaf ==
    /\ phase = "stochastic"
    /\ st.pc = "while"
    /\ st.curr_depth = args.depth
    /\ LET value == evaluate(st.cur.board)
           child_tree == backtrackPath(EmptyDict, st.path)
           s1 == [st EXCEPT !.value = value,
                            !.vals_to_avg = Append(st.vals_to_avg, value)]
           s2 == [s1 EXCEPT !.moveTree = RecordRollout(st.moveTree, st.i_move,
                                                       child_tree.tree),
                            !.rollouts[st.i] =
                                Append(@, [line |-> st.played, leaf |-> st.cur.board,
                                           value |-> value])]
       IN st' = IF child_tree.raised
                THEN [s1 EXCEPT !.pc = "raised", !.error = "IndexError"]
                ELSE IF st.j + 1 < args.breadth
                     THEN NewRollout(s2, st.j + 1)
                     ELSE AfterRollouts(s2)
    /\ UNCHANGED <<width, dead, evalTab, phase, args, mmRes, abRes>>

\* lines 274-287: moveList[min_idx] of an empty moveList raises IndexError
StReturn ==
    /\ phase = "stochastic"
    /\ st.pc = "for_i"
    /\ st.i = Len(st.initial_moves)
    /\ LET sel == Select(args.side, st.initial_move_averages)
       IN st' = IF Len(st.moveList) = 0
                THEN [st EXCEPT !.pc = "raised", !.error = "IndexError"]
                ELSE [st EXCEPT !.pc = "returned",
                                !.result = [value |-> sel.min,
                                            moveList |-> st.moveList[sel.min_idx + 1],
                                            moveTree |-> st.moveTree]]
    /\ UNCHANGED <<width, dead, evalTab, phase, args, mmRes, abRes>>

NextSt == StochasticCall \/ StInitialMove \/ StChoose \/ StLeaf \/ StReturn

SpecSt == InitSt /\ [][NextSt]_vars

\* ---- the claims about minimax and alphabeta --------------------------------

Called == phase \in {"minimax", "both"}

\* The side to move on `board`, a position below the board of the call.
SideAt(board) ==
    IF (Len(board) - Len(args.board)) % 2 = 0 THEN args.side ELSE ~args.side

\* The move that leads from a board to its child Append(board, fro).
MoveOf(fro) == <<fro, fro + 1, 0>>

RECURSIVE HasMovesWithin(_, _)
\* Every position within `depth` plies of `board` has a legal move.
HasMovesWithin(board, depth) ==
    \/ depth = 0
    \/ /\ nmoves(board) > 0
       /\ \A k \in 1..nmoves(board) : HasMovesWithin(Append(board, k), depth - 1)

RECURSIVE LegalLine(_, _, _)
\* path is a line of legal moves from board, the sides alternating.
LegalLine(side, board, path) ==
    \/ path = <<>>
    \/ /\ \E k \in 1..nmoves(board) : generateMoves(side, board)[k] = path[1]
       /\ LegalLine(~side, Append(board, path[1][1]), Tail(path))

RECURSIVE EndBoard(_, _)
\* The board after playing path from board.
EndBoard(board, path) ==
    IF path = <<>> THEN board ELSE EndBoard(Append(board, path[1][1]), Tail(path))

RECURSIVE TreeContained(_, _)
\* Every move-key path of tree a is one of tree b.
TreeContained(a, b) ==
    \A key \in DOMAIN a : key \in DOMAIN b /\ TreeContained(a[key], b[key])

RECURSIVE LeafEntries(_), LeafEntriesOf(_, _)
\* The keys of a tree, at any level, that are mapped to an empty tree.
LeafEntries(tree) == LeafEntriesOf(tree, DOMAIN tree)

LeafEntriesOf(tree, keys) ==
    IF keys = {} THEN 0
    ELSE LET key == CHOOSE x \in keys : TRUE
         IN (IF tree[key] = EmptyDict THEN 1 ELSE LeafEntries(tree[key]))
            + LeafEntriesOf(tree, keys \ {key})

RECURSIVE HasPath(_, _), SubtreeAt(_, _)
\* Whether the moves `rel` are a key path of tree, and the node they lead to.
HasPath(tree, rel) ==
    \/ rel = <<>>
    \/ /\ encode(MoveOf(rel[1])) \in DOMAIN tree
       /\ HasPath(tree[encode(MoveOf(rel[1]))], Tail(rel))

SubtreeAt(tree, rel) ==
    IF rel = <<>> THEN tree ELSE SubtreeAt(tree[encode(MoveOf(rel[1]))], Tail(rel))

\* A board below the board of the call, as the moves that lead to it from there.
Rel(board) == SubSeq(board, Len(args.board) + 1, Len(board))

KeysUpTo(board, k) == {encode(generateMoves(SideAt(board), board)[j]) : j \in 1..k}

\* C1: alphabeta with the default bounds returns minimax's value and path.
C1_AlphabetaEqualsMinimax ==
    phase = "both" =>
        /\ abRes.value = mmRes.value
        /\ abRes.moveList = mmRes.moveList

\* A cutoff happened below the root and alphabeta still returned minimax's line.
C1_Witness ==
    /\ phase = "both"
    /\ args.depth >= 2
    /\ abRes.cuts # {}
    /\ Len(mmRes.moveList) = args.depth

\* C2: with depth > 0 and no legal move, minimax and alphabeta return the
\* evaluation of the position, an empty path and an empty tree.
C2_NoMovesReturnsEvaluation ==
    (Called /\ args.depth > 0 /\ nmoves(args.board) = 0) =>
        /\ mmRes.value = evaluate(args.board)
        /\ mmRes.moveList = <<>>
        /\ mmRes.moveTree = EmptyDict
        /\ phase = "both" =>
             /\ abRes.value = mmRes.value
             /\ abRes.moveList = mmRes.moveList
             /\ abRes.moveTree = mmRes.moveTree

\* The value minimax returns for the k-th move of the call's position.
RecValue(k) ==
    LET move == generateMoves(args.side, args.board)[k]
        new == makeMove(args.side, args.board, move[1], move[2], move[3])
    IN minimax(new.side, new.board, args.depth - 1).value

\* C3: minimax with depth >= 1 on a position with a legal move returns the
\* maximum (side = FALSE) or minimum (side = TRUE) of the moves' recursive
\* values, and its path starts with the first move that attains it.
C3_FirstOptimalMove ==
    (Called /\ args.depth >= 1 /\ nmoves(args.board) >= 1) =>
        LET moves == generateMoves(args.side, args.board)
            ks == 1..Len(moves)
            opt == CHOOSE v \in {RecValue(k) : k \in ks} :
                     \A k \in ks : IF args.side = FALSE THEN RecValue(k) <= v
                                                        ELSE RecValue(k) >= v
            first == CHOOSE k \in ks :
                       /\ RecValue(k) = opt
                       /\ \A j \in 1..(k - 1) : RecValue(j) # opt
        IN /\ mmRes.value = opt
           /\ mmRes.moveList # <<>>
           /\ mmRes.moveList[1] = moves[first]

\* C4: a call with a negative depth fails at once: it does not return, and it
\* explores no move.
C4_NegativeDepthFails ==
    args.depth < 0 =>
        /\ ~Called
        /\ mmRes.moveTree = EmptyDict
        /\ abRes.moveTree = EmptyDict

\* C8: alphabeta's tree is contained in minimax's, with no more leaf entries, and
\* fewer when a cutoff left a move unexplored; at a cutoff the moves up to the
\* one that triggered it are in alphabeta's tree and the later ones are not.
C8_PrunedTree ==
    phase = "both" =>
        /\ TreeContained(abRes.moveTree, mmRes.moveTree)
        /\ LeafEntries(abRes.moveTree) <= LeafEntries(mmRes.moveTree)
        /\ abRes.cuts # {} => LeafEntries(abRes.moveTree) < LeafEntries(mmRes.moveTree)
        /\ \A cut \in abRes.cuts :
             /\ HasPath(abRes.moveTree, Rel(cut.board))
             /\ DOMAIN SubtreeAt(abRes.moveTree, Rel(cut.board))
                  = KeysUpTo(cut.board, cut.k)
             /\ DOMAIN SubtreeAt(mmRes.moveTree, Rel(cut.board))
                  = KeysUpTo(cut.board, nmoves(cut.board))

\* A cutoff below the position of the call left a move unexplored.
C8_Witness ==
    /\ phase = "both"
    /\ \E cut \in abRes.cuts : Len(Rel(cut.board)) >= 1 /\ cut.k < nmoves(cut.board)

\* What C9 says of one result.
LineOK(res) ==
    /\ Len(res.moveList) = args.depth
    /\ LegalLine(args.side, args.board, res.moveList)
    /\ res.value = evaluate(EndBoard(args.board, res.moveList))

\* C9: when every position within depth plies has a legal move, the path is a
\* legal line of exactly depth moves and the value is the evaluation of the
\* position the line ends in.
C9_PathIsLegalLine ==
    (Called /\ args.depth >= 0 /\ HasMovesWithin(args.board, args.depth)) =>
        /\ LineOK(mmRes)
        /\ phase = "both" => LineOK(abRes)

\* Both searches returned a line of three moves.
C9_Witness ==
    /\ phase = "both"
    /\ args.depth = MaxPly
    /\ HasMovesWithin(args.board, args.depth)
    /\ Len(abRes.moveList) = MaxPly

\* ---- the claims about stochastic --------------------------------------------

StReturned == phase = "stochastic" /\ st.pc = "returned"
StEnded == phase = "stochastic" /\ st.pc \in {"returned", "raised"}

\* C5: with depth >= 1, breadth >= 1 and a legal move in every position a
\* rollout reaches, stochastic returns, and its path has exactly depth moves.
C5_PathHasDepthMoves ==
    (/\ StEnded
     /\ args.depth >= 1
     /\ args.breadth >= 1
     /\ HasMovesWithin(args.board, args.depth + 1)) =>
        /\ st.pc = "returned"
        /\ Len(st.result.moveList) = args.depth

RECURSIVE IsChain(_)
\* Every node of the tree has at most one child.
IsChain(tree) ==
    /\ Cardinality(DOMAIN tree) <= 1
    /\ \A key \in DOMAIN tree : IsChain(tree[key])

\* C6: the sub-tree under each first move's key is a single chain.
C6_OneChainPerFirstMove ==
    StReturned =>
        \A key \in DOMAIN st.result.moveTree : IsChain(st.result.moveTree[key])

RECURSIVE ChainTree(_)
\* The tree that is the single chain of the moves of line.
ChainTree(line) ==
    IF line = <<>> THEN EmptyDict
    ELSE DictSet(EmptyDict, encode(line[1]), ChainTree(Tail(line)))

\* The last rollout of the first move i whose second move has the key `key`.
LastRolloutWith(i, key) ==
    LET rs == st.rollouts[i]
        j == CHOOSE x \in 1..Len(rs) :
               /\ encode(rs[x].line[1]) = key
               /\ \A y \in (x + 1)..Len(rs) : encode(rs[y].line[1]) # key
    IN rs[j]

\* C6 as amended: the sub-tree under a first move's key has one child for each
\* second move its rollouts chose, and under that child the single chain of the
\* last rollout that chose it.
C6_ChainPerSecondMove ==
    StReturned =>
        /\ DOMAIN st.result.moveTree
             = {encode(st.initial_moves[i]) : i \in 1..Len(st.initial_moves)}
        /\ \A i \in 1..Len(st.initial_moves) :
             LET sub == st.result.moveTree[encode(st.initial_moves[i])]
                 rs == st.rollouts[i]
             IN /\ Len(rs) = args.breadth
                /\ DOMAIN sub = {encode(rs[j].line[1]) : j \in 1..Len(rs)}
                /\ Cardinality(DOMAIN sub) <= args.breadth
                /\ \A key \in DOMAIN sub :
                     /\ IsChain(sub[key])
                     /\ sub[key] = ChainTree(Tail(LastRolloutWith(i, key).line))

\* Two rollouts of one first move chose different second moves, and two chose
\* the same second move and different third moves.
C6_Witness ==
    /\ StReturned
    /\ args.depth >= 3
    /\ \E key \in DOMAIN st.result.moveTree :
         Cardinality(DOMAIN st.result.moveTree[key]) >= 2
    /\ \E i \in 1..Len(st.rollouts) : \E x, y \in 1..Len(st.rollouts[i]) :
         /\ st.rollouts[i][x].line[1] = st.rollouts[i][y].line[1]
         /\ st.rollouts[i][x].line[2] # st.rollouts[i][y].line[2]

RECURSIVE SumValues(_)
SumValues(rs) == IF rs = <<>> THEN 0 ELSE rs[1].value + SumValues(Tail(rs))

\* The mean of the leaf evaluations of the rollouts of the first move i.
MeanOf(i) == Rat(SumValues(st.rollouts[i]), Len(st.rollouts[i]))

C7_TieWitness ==
    /\ StReturned
    /\ Len(st.initial_moves) >= 2
    /\ st.result.moveList[1] = st.initial_moves[1]
    /\ RatEq(MeanOf(1), MeanOf(2))

\* C10: the path is the selected first move followed by the moves of one of its
\* rollouts in the order played: a legal line that ends in that rollout's leaf.
C10_PathInPlayedOrder ==
    StReturned =>
        \E i \in 1..Len(st.initial_moves) :
            /\ st.result.moveList[1] = st.initial_moves[i]
            /\ \E j \in 1..Len(st.rollouts[i]) :
                 /\ st.result.moveList = <<st.initial_moves[i]>> \o st.rollouts[i][j].line
                 /\ LegalLine(args.side, args.board, st.result.moveList)
                 /\ EndBoard(args.board, st.result.moveList) = st.rollouts[i][j].leaf
====
